---- MODULE Spec2Model ----
(***************************************************************************)
(* A model of the two-dimensional text buffer `Core` of src/editor/core.rs *)
(* (the flat codepoint buffer, the derived line index and the cursor).     *)
(*                                                                         *)
(* A Core value is a record                                                *)
(*   [buffer, newline_indices, line, column, panicked]                     *)
(* where `panicked` records that a call ended in a Rust panic (the fields  *)
(* then hold what the object held when the panic was raised).  Vectors are *)
(* sequences; Rust's 0-based v[i] is At(v, i).  Option<usize> is encoded   *)
(* as a sequence: None is << >>, Some(x) is <<x>>; a panic raised while    *)
(* computing an Option is Panic.                                           *)
(*                                                                         *)
(* `call` and `old` are history variables: the traced call with its        *)
(* arguments, and the Core value it was applied to; `result` is what a     *)
(* traced search returned (an Option<Position>, a position being <<l, c>>).*)
(*                                                                         *)
(* `virtual_column` is the field of that name of `Core2`                   *)
(* (src/editor/core2.rs), whose buffer is a vector of lines; `remembered`  *)
(* is a history variable: the column the last truncating vertical move of  *)
(* a Core2 started from, forgotten when a horizontal move changes the      *)
(* column.  Both stay None in the runs of Core.                            *)
(*                                                                         *)
(* usize is modelled with a reduced width: values 0..UsizeMax.  An         *)
(* arithmetic overflow panics in a build with overflow checks and wraps    *)
(* in a build without; `overflow_checks` is fixed when the run starts.     *)
(***************************************************************************)
EXTENDS Integers, Sequences, FiniteSets, TLC

VARIABLES buffer, newline_indices, line, column, panicked,
          new_result, overflow_checks, call, old, result,
          virtual_column, remembered

vars == <<buffer, newline_indices, line, column, panicked,
          new_result, overflow_checks, call, old, result,
          virtual_column, remembered>>

(* ------------------------------ bounds -------------------------------- *)

\* longest buffer the model builds
MaxLen == 3
\* line and column arguments range over 0..MaxPos
MaxPos == 3
\* longest string handed to insert_string_at
MaxStr == 2
\* step counts 0..MaxN (and UsizeMax) are handed to the move operations
MaxN == 2
\* the largest usize of the reduced-width machine integer
UsizeMax == 31

NL == "\n"
Chars == {"a", NL}

Texts(n) == UNION {[1..k -> Chars] : k \in 0..n}
PosArgs == 0..MaxPos
NArgs == (0..MaxN) \cup {UsizeMax}

(* ------------------------------ helpers ------------------------------- *)

None == << >>
Some(x) == <<x>>
Panic == <<0, 0>>
IsSome(o) == Len(o) = 1
Unwrap(o) == o[1]

At(v, i) == v[i + 1]

\* Vec::insert(i, x), for i <= len
VecInsert(v, i, x) == SubSeq(v, 1, i) \o <<x>> \o SubSeq(v, i + 1, Len(v))

\* Vec::remove(i), for i < len
VecRemove(v, i) == SubSeq(v, 1, i) \o SubSeq(v, i + 2, Len(v))

\* chars.iter().enumerate().filter_map(|(i, ch)| if *ch == '\n' ...)
NewlinePositions(chars) ==
    SelectSeq([k \in 1..Len(chars) |-> k - 1], LAMBDA i : At(chars, i) = NL)

Reverse(s) == [k \in 1..Len(s) |-> s[Len(s) + 1 - k]]

MkCore(b, idx, l, c) ==
    [buffer |-> b, newline_indices |-> idx, line |-> l, column |-> c,
     panicked |-> FALSE]

PanicIn(self) == [self EXCEPT !.panicked = TRUE]

\* the Core value held by the variables
this == [buffer |-> buffer, newline_indices |-> newline_indices,
         line |-> line, column |-> column, panicked |-> panicked]

(* --------------------------- &str and char ---------------------------- *)

\* a character of four UTF-8 bytes, U+1F496 (F0 9F 92 96)
Wide == "W"
UniChars == Chars \cup {Wide}

\* char::encode_utf8
encode_utf8(ch) ==
    IF ch = Wide THEN <<240, 159, 146, 150>>
    ELSE IF ch = NL THEN <<10>>
    ELSE <<97>>

\* a &str is its UTF-8 bytes; this is the &str that holds the characters cs
RECURSIVE StrOf(_)
StrOf(cs) ==
    IF cs = << >> THEN << >>
    ELSE encode_utf8(Head(cs)) \o StrOf(Tail(cs))

\* the length of the UTF-8 sequence that starts with byte b
utf8_char_width(b) ==
    IF b < 128 THEN 1 ELSE IF b >= 240 THEN 4 ELSE IF b >= 224 THEN 3 ELSE 2

\* the character a UTF-8 sequence decodes to
decode_utf8(bytes) ==
    IF bytes = <<10>> THEN NL
    ELSE IF bytes = <<240, 159, 146, 150>> THEN Wide
    ELSE "a"

\* a character for every byte of the &str
str_bytes(s) ==
    [k \in 1..Len(s) |->
        IF s[k] = 10 THEN NL ELSE IF s[k] = 97 THEN "a" ELSE "?"]

\* str::chars().collect(): one character for every UTF-8 sequence
RECURSIVE str_chars(_)
str_chars(s) ==
    IF s = << >> THEN << >>
    ELSE LET w == utf8_char_width(s[1])
         IN  <<decode_utf8(SubSeq(s, 1, w))>>
                 \o str_chars(SubSeq(s, w + 1, Len(s)))

(* ---------------------------- Core::new ------------------------------- *)

NewIndices(chars) ==
    LET indices == NewlinePositions(chars)
        char_count == Len(chars)
    IN  IF indices = << >> \/ indices[Len(indices)] + 1 # char_count
        THEN Append(indices, char_count)
        ELSE indices

CoreNew(text, l, c) ==
    LET indices == NewIndices(text)
    IN  IF Len(indices) <= l
        THEN [tag |-> "Err", core |-> MkCore(<< >>, << >>, 0, 0)]
        ELSE LET width == At(indices, l)
                          - (IF l = 0 THEN 0 ELSE At(indices, l - 1) + 1)
             IN  IF width < c
                 THEN [tag |-> "Err", core |-> MkCore(<< >>, << >>, 0, 0)]
                 ELSE [tag |-> "Ok", core |-> MkCore(text, indices, l, c)]

(* ------------------------------ queries ------------------------------- *)

line_count(self) == Len(self.newline_indices)

\* line_width with the width measured from the previous newline itself
\* (the + 1 that skips it forgotten)
line_width_from_newline(self, n) ==
    IF n >= line_count(self) THEN None
    ELSE LET right == At(self.newline_indices, n)
         IN  IF n = 0 THEN Some(right)
             ELSE Some(right - At(self.newline_indices, n - 1))

line_width(self, n) ==
    IF n >= line_count(self) THEN None
    ELSE LET right == At(self.newline_indices, n)
         IN  IF n = 0 THEN Some(right)
             ELSE LET left == At(self.newline_indices, n - 1) + 1
                  IN  IF right >= left THEN Some(right - left)
                      ELSE IF overflow_checks THEN Panic
                      ELSE Some(right - left + UsizeMax + 1)

\* line_width(self.line).expect(..)
current_line_width(self) ==
    LET w == line_width(self, self.line)
    IN  IF IsSome(w) THEN w ELSE Panic

\* offset with a line taken to start at the previous newline itself (the
\* + 1 that skips it forgotten)
offset_from_newline(self, l, c) ==
    IF l >= line_count(self) THEN None
    ELSE LET w == line_width(self, l)
         IN  IF w = Panic THEN Panic
             ELSE IF Unwrap(w) < c THEN None
             ELSE IF l = 0 THEN Some(c)
             ELSE Some(At(self.newline_indices, l - 1) + c)

offset(self, l, c) ==
    IF l >= line_count(self) THEN None
    ELSE LET w == line_width(self, l)
         IN  IF w = Panic THEN Panic
             ELSE IF Unwrap(w) < c THEN None
             ELSE IF l = 0 THEN Some(c)
             ELSE Some(At(self.newline_indices, l - 1) + 1 + c)

\* offset(self.line, self.column).expect(..)
current_offset(self) ==
    LET o == offset(self, self.line, self.column)
    IN  IF IsSome(o) THEN o ELSE Panic

(* --------------------------- cursor moves ----------------------------- *)

set_column(self, n) ==
    LET w == current_line_width(self)
    IN  IF w = Panic THEN PanicIn(self)
        ELSE IF n <= Unwrap(w) THEN [self EXCEPT !.column = n]
        ELSE self

\* the column is clamped to the width of the line the cursor ends on
ClampColumn(self) ==
    LET w == current_line_width(self)
    IN  IF w = Panic THEN PanicIn(self)
        ELSE IF Unwrap(w) < self.column THEN [self EXCEPT !.column = Unwrap(w)]
        ELSE self

set_line(self, n) ==
    ClampColumn(IF n < line_count(self) THEN [self EXCEPT !.line = n] ELSE self)

move_left(self, n) ==
    IF self.column < n THEN [self EXCEPT !.column = 0]
    ELSE [self EXCEPT !.column = self.column - n]

move_right(self, n) ==
    LET w == current_line_width(self)
        sum == self.column + n
    IN  IF w = Panic THEN PanicIn(self)
        ELSE IF sum > UsizeMax /\ overflow_checks THEN PanicIn(self)
        ELSE IF sum % (UsizeMax + 1) >= Unwrap(w)
             THEN [self EXCEPT !.column = Unwrap(w)]
             ELSE [self EXCEPT !.column = sum % (UsizeMax + 1)]

move_up(self, n) ==
    ClampColumn(IF self.line < n THEN [self EXCEPT !.line = 0]
                ELSE [self EXCEPT !.line = self.line - n])

move_down(self, n) ==
    LET sum == self.line + n
        lc == line_count(self)
    IN  IF sum > UsizeMax /\ overflow_checks THEN PanicIn(self)
        ELSE IF sum % (UsizeMax + 1) >= lc
             THEN IF lc = 0 /\ overflow_checks THEN PanicIn(self)
                  ELSE ClampColumn([self EXCEPT
                           !.line = IF lc = 0 THEN UsizeMax ELSE lc - 1])
             ELSE ClampColumn([self EXCEPT !.line = sum % (UsizeMax + 1)])

(* ----------------------------- mutations ------------------------------ *)

\* for x in self.newline_indices[line..].iter_mut() { *x += d }
ShiftFrom(indices, l, d) ==
    [k \in 1..Len(indices) |-> IF k > l THEN indices[k] + d ELSE indices[k]]

\* insert_at that clamps a column beyond the line's width to the width
\* instead of ignoring the call
insert_at_clamped(self, ch, l, c) ==
    LET lw == line_width(self, l)
        col == IF IsSome(lw) /\ c > Unwrap(lw) THEN Unwrap(lw) ELSE c
        o == offset(self, l, col)
        co == current_offset(self)
    IN  IF o = None THEN self
        ELSE IF o = Panic \/ co = Panic THEN PanicIn(self)
        ELSE LET i == Unwrap(o)
                 cur == Unwrap(co)
                 shifted == ShiftFrom(self.newline_indices, l, 1)
                 edited == [self EXCEPT
                     !.buffer = VecInsert(self.buffer, i, ch),
                     !.newline_indices =
                         IF ch = NL THEN VecInsert(shifted, l, i) ELSE shifted]
             IN  IF i > Len(self.buffer) THEN PanicIn(self)
                 ELSE IF ch = NL /\ i <= cur
                      THEN [edited EXCEPT
                               !.column = IF self.line = l THEN cur - i
                                          ELSE self.column,
                               !.line = self.line + 1]
                 ELSE IF l = self.line /\ col <= self.column
                      THEN [edited EXCEPT !.column = self.column + 1]
                 ELSE edited

\* insert_at that leaves a cursor at the insertion point before the new
\* character
insert_at_strictly_before(self, ch, l, c) ==
    LET o == offset(self, l, c)
        co == current_offset(self)
    IN  IF o = None THEN self
        ELSE IF o = Panic \/ co = Panic THEN PanicIn(self)
        ELSE LET i == Unwrap(o)
                 cur == Unwrap(co)
                 shifted == ShiftFrom(self.newline_indices, l, 1)
                 edited == [self EXCEPT
                     !.buffer = VecInsert(self.buffer, i, ch),
                     !.newline_indices =
                         IF ch = NL THEN VecInsert(shifted, l, i) ELSE shifted]
             IN  IF i > Len(self.buffer) THEN PanicIn(self)
                 ELSE IF ch = NL /\ i < cur
                      THEN [edited EXCEPT
                               !.column = IF self.line = l THEN cur - i
                                          ELSE self.column,
                               !.line = self.line + 1]
                 ELSE IF l = self.line /\ c < self.column
                      THEN [edited EXCEPT !.column = self.column + 1]
                 ELSE edited

insert_at(self, ch, l, c) ==
    LET o == offset(self, l, c)
        co == current_offset(self)
    IN  IF o = None THEN self
        ELSE IF o = Panic \/ co = Panic THEN PanicIn(self)
        ELSE LET i == Unwrap(o)
                 cur == Unwrap(co)
                 shifted == ShiftFrom(self.newline_indices, l, 1)
                 edited == [self EXCEPT
                     !.buffer = VecInsert(self.buffer, i, ch),
                     !.newline_indices =
                         IF ch = NL THEN VecInsert(shifted, l, i) ELSE shifted]
             IN  IF i > Len(self.buffer) THEN PanicIn(self)
                 ELSE IF ch = NL /\ i <= cur
                      THEN [edited EXCEPT
                               !.column = IF self.line = l THEN cur - i
                                          ELSE self.column,
                               !.line = self.line + 1]
                 ELSE IF l = self.line /\ c <= self.column
                      THEN [edited EXCEPT !.column = self.column + 1]
                 ELSE edited

\* for ch in s.chars().rev() { self.insert_at(ch, line, column) }
RECURSIVE InsertEach(_, _, _, _)
InsertEach(self, rev, l, c) ==
    IF rev = << >> \/ self.panicked THEN self
    ELSE InsertEach(insert_at(self, Head(rev), l, c), Tail(rev), l, c)

insert_string_at(self, s, l, c) == InsertEach(self, Reverse(s), l, c)

\* the decrementing loop of delete_at, stopped by the overflow check at the
\* first entry that is 0
ShiftUntilZero(indices, l) ==
    [k \in 1..Len(indices) |->
        IF k > l /\ \A j \in (l + 1)..k : indices[j] > 0
        THEN indices[k] - 1 ELSE indices[k]]

\* the decrementing loop of delete_at in wrapping arithmetic
ShiftWrapping(indices, l) ==
    [k \in 1..Len(indices) |->
        IF k > l THEN (indices[k] + UsizeMax) % (UsizeMax + 1) ELSE indices[k]]

\* delete_at that also moves a cursor that is on the removed newline
delete_at_repair_on_equal(self, l, c) ==
    LET lw == line_width(self, l)
        co == current_offset(self)
        o == offset(self, l, c)
    IN  IF lw = None THEN self
        ELSE IF lw = Panic THEN PanicIn(self)
        ELSE IF line_count(self) <= l \/ Unwrap(lw) < c THEN self
        ELSE IF co = Panic \/ ~IsSome(o) THEN PanicIn(self)
        ELSE IF Unwrap(o) >= Len(self.buffer) THEN PanicIn(self)
        ELSE LET cur == Unwrap(co)
                 width == Unwrap(lw)
                 off == Unwrap(o)
                 ch == At(self.buffer, off)
                 removed == IF ch = NL THEN VecRemove(self.newline_indices, l)
                            ELSE self.newline_indices
                 edited == [self EXCEPT
                     !.buffer = VecRemove(self.buffer, off),
                     !.newline_indices = ShiftFrom(removed, l, -1)]
             IN  IF \E k \in (l + 1)..Len(removed) : removed[k] = 0
                 THEN IF overflow_checks
                      THEN PanicIn([self EXCEPT
                               !.buffer = VecRemove(self.buffer, off),
                               !.newline_indices = ShiftUntilZero(removed, l)])
                      ELSE [edited EXCEPT
                               !.newline_indices = ShiftWrapping(removed, l)]
                 ELSE IF ch = NL /\ off <= cur
                 THEN IF self.line = 0
                      THEN IF overflow_checks THEN PanicIn(edited)
                           ELSE [edited EXCEPT !.line = UsizeMax]
                      ELSE [edited EXCEPT
                               !.line = self.line - 1,
                               !.column = IF self.line - 1 = l
                                          THEN width + cur - off - 1
                                          ELSE self.column]
                 ELSE IF l # self.line THEN edited
                 ELSE IF c < self.column
                      THEN [edited EXCEPT !.column = self.column - 1]
                 ELSE edited

delete_at(self, l, c) ==
    LET lw == line_width(self, l)
        co == current_offset(self)
        o == offset(self, l, c)
    IN  IF lw = None THEN self
        ELSE IF lw = Panic THEN PanicIn(self)
        ELSE IF line_count(self) <= l \/ Unwrap(lw) < c THEN self
        ELSE IF co = Panic \/ ~IsSome(o) THEN PanicIn(self)
        ELSE IF Unwrap(o) >= Len(self.buffer) THEN PanicIn(self)
        ELSE LET cur == Unwrap(co)
                 width == Unwrap(lw)
                 off == Unwrap(o)
                 ch == At(self.buffer, off)
                 removed == IF ch = NL THEN VecRemove(self.newline_indices, l)
                            ELSE self.newline_indices
                 edited == [self EXCEPT
                     !.buffer = VecRemove(self.buffer, off),
                     !.newline_indices = ShiftFrom(removed, l, -1)]
             IN  IF \E k \in (l + 1)..Len(removed) : removed[k] = 0
                 THEN IF overflow_checks
                      THEN PanicIn([self EXCEPT
                               !.buffer = VecRemove(self.buffer, off),
                               !.newline_indices = ShiftUntilZero(removed, l)])
                      ELSE [edited EXCEPT
                               !.newline_indices = ShiftWrapping(removed, l)]
                 ELSE IF ch = NL /\ off < cur
                 THEN IF self.line = 0
                      THEN IF overflow_checks THEN PanicIn(edited)
                           ELSE [edited EXCEPT !.line = UsizeMax]
                      ELSE [edited EXCEPT
                               !.line = self.line - 1,
                               !.column = IF self.line - 1 = l
                                          THEN width + cur - off - 1
                                          ELSE self.column]
                 ELSE IF l # self.line THEN edited
                 ELSE IF c < self.column
                      THEN [edited EXCEPT !.column = self.column - 1]
                 ELSE edited

\* for _ in 0..n { self.delete_at(line, column) }
RECURSIVE DeleteTimes(_, _, _, _)
DeleteTimes(self, n, l, c) ==
    IF n = 0 \/ self.panicked THEN self
    ELSE DeleteTimes(delete_at(self, l, c), n - 1, l, c)

\* delete_range that ignores a range with an endpoint that is no position
delete_range_silent(self, sl, sc, el, ec) ==
    LET start == offset(self, sl, sc)
        end == offset(self, el, ec)
    IN  IF ~IsSome(start) \/ ~IsSome(end) THEN self
        ELSE IF Unwrap(end) < Unwrap(start) THEN PanicIn(self)
        ELSE DeleteTimes(self, Unwrap(end) - Unwrap(start), sl, sc)

delete_range(self, sl, sc, el, ec) ==
    LET start == offset(self, sl, sc)
        end == offset(self, el, ec)
    IN  IF ~IsSome(start) \/ ~IsSome(end) THEN PanicIn(self)
        ELSE IF Unwrap(end) < Unwrap(start)
             THEN IF overflow_checks THEN PanicIn(self)
                  ELSE DeleteTimes(self,
                           Unwrap(end) - Unwrap(start) + UsizeMax + 1, sl, sc)
        ELSE DeleteTimes(self, Unwrap(end) - Unwrap(start), sl, sc)

(* ------------------------------ searches ------------------------------ *)

\* the character classes handed to the searches
is_alphanumeric(ch) == ch = "a"
is_whitespace(ch) == ch = NL
is_symbol(ch) == ~(is_alphanumeric(ch) \/ is_whitespace(ch))
\* the closure |ch| ch == '\n' of the tests
is_newline(ch) == ch = NL
Classes == {"is_alphanumeric", "is_symbol", "is_newline"}
Holds(f, ch) ==
    IF f = "is_alphanumeric" THEN is_alphanumeric(ch)
    ELSE IF f = "is_symbol" THEN is_symbol(ch)
    ELSE is_newline(ch)

SetMin(S) == CHOOSE x \in S : \A y \in S : x <= y
SetMax(S) == CHOOSE x \in S : \A y \in S : x >= y

PositionNew(l, c) == <<l, c>>

\* v[from..].iter().position(|&ch| f(ch) == want): the distance from `from`
\* to the first such character
IterPosition(v, from, f, want) ==
    LET hits == {k \in from..(Len(v) - 1) : Holds(f, At(v, k)) = want}
    IN  IF hits = {} THEN None ELSE Some(SetMin(hits) - from)

\* an iterator over v[..to], rposition(|&ch| f(ch) == want): the index of
\* the last such character
IterRPosition(v, to, f, want) ==
    LET hits == {k \in 0..(to - 1) : Holds(f, At(v, k)) = want}
    IN  IF hits = {} THEN None ELSE Some(SetMax(hits))

\* indices[self.line..].iter().position(|&x| n < x) + self.line
LineAfter(self, n) ==
    LET hits == {k \in self.line..(line_count(self) - 1) :
                    n < At(self.newline_indices, k)}
    IN  IF hits = {} THEN None ELSE Some(SetMin(hits))

\* the closure shared by next_position and next_end_position: the position
\* of the character after offset n, found through the line index
PositionAfter(self, off, n) ==
    LET i == LineAfter(self, n)
    IN  IF i = None THEN Panic
        ELSE IF Unwrap(i) = self.line
             THEN Some(PositionNew(self.line, self.column + n - off + 1))
        ELSE Some(PositionNew(Unwrap(i),
                      n - At(self.newline_indices, Unwrap(i) - 1)))

\* next_position without the + p: the characters consumed by the first
\* scan are not counted
next_position_uncounted(self, f) ==
    LET co == current_offset(self)
    IN  IF co = Panic \/ Unwrap(co) > Len(self.buffer) THEN Panic
        ELSE LET off == Unwrap(co)
                 p == IterPosition(self.buffer, off, f, FALSE)
             IN  IF p = None THEN None
                 ELSE LET q == IterPosition(self.buffer,
                                   off + Unwrap(p) + 1, f, TRUE)
                      IN  IF q = None THEN None
                          ELSE PositionAfter(self, off, Unwrap(q) + off)

next_position(self, f) ==
    LET co == current_offset(self)
    IN  IF co = Panic \/ Unwrap(co) > Len(self.buffer) THEN Panic
        ELSE LET off == Unwrap(co)
                 p == IterPosition(self.buffer, off, f, FALSE)
             IN  IF p = None THEN None
                 ELSE LET q == IterPosition(self.buffer,
                                   off + Unwrap(p) + 1, f, TRUE)
                      IN  IF q = None THEN None
                          ELSE PositionAfter(self, off,
                                   Unwrap(q) + off + Unwrap(p))

\* previous_position that answers (0, 0) also when no character before the
\* cursor satisfies f
previous_position_floor(self, f) ==
    LET co == current_offset(self)
    IN  IF co = Panic \/ Unwrap(co) > Len(self.buffer) THEN Panic
        ELSE LET off == Unwrap(co)
                 r == IterRPosition(self.buffer, off, f, TRUE)
                 m == IterRPosition(self.buffer,
                          IF r = None THEN 0 ELSE Unwrap(r), f, FALSE)
             IN  IF r = None \/ m = None THEN Some(PositionNew(0, 0))
                 ELSE LET n == Unwrap(m) + 1
                          hits == {k \in 0..(self.line - 1) :
                                      n > At(self.newline_indices, k)}
                      IN  IF hits = {} THEN Some(PositionNew(0, n))
                          ELSE LET i == SetMax(hits)
                               IN  Some(PositionNew(i + 1,
                                       n - At(self.newline_indices, i) - 1))

previous_position(self, f) ==
    LET co == current_offset(self)
    IN  IF co = Panic \/ Unwrap(co) > Len(self.buffer) THEN Panic
        ELSE LET off == Unwrap(co)
                 r == IterRPosition(self.buffer, off, f, TRUE)
             IN  IF r = None THEN None
                 ELSE LET m == IterRPosition(self.buffer, Unwrap(r), f, FALSE)
                      IN  IF m = None THEN Some(PositionNew(0, 0))
                          ELSE LET n == Unwrap(m) + 1
                                   hits == {k \in 0..(self.line - 1) :
                                       n > At(self.newline_indices, k)}
                               IN  IF hits = {} THEN Some(PositionNew(0, n))
                                   ELSE LET i == SetMax(hits)
                                        IN  Some(PositionNew(i + 1,
                                                n - At(self.newline_indices, i)
                                                  - 1))

next_end_position(self, f) ==
    LET co == current_offset(self)
    IN  IF co = Panic \/ Unwrap(co) > Len(self.buffer) THEN Panic
        ELSE LET off == Unwrap(co)
                 p == IterPosition(self.buffer, off, f, TRUE)
             IN  IF p = None THEN None
                 ELSE LET q == IterPosition(self.buffer,
                                   off + Unwrap(p) + 1, f, FALSE)
                      IN  IF q = None THEN None
                          ELSE LET sum == Unwrap(q) + off + Unwrap(p)
                               IN  IF sum = 0 /\ overflow_checks THEN Panic
                                   ELSE PositionAfter(self, off,
                                            (sum + UsizeMax) % (UsizeMax + 1))

previous_end_position(self, f) ==
    LET co == current_offset(self)
    IN  IF co = Panic \/ Unwrap(co) > Len(self.buffer) THEN Panic
        ELSE LET off == Unwrap(co)
                 m == IterRPosition(self.buffer, off, f, FALSE)
             IN  IF m = None THEN None
                 ELSE LET r == IterRPosition(self.buffer, Unwrap(m), f, TRUE)
                      IN  IF r = None THEN Some(PositionNew(0, 0))
                          ELSE LET n == Unwrap(r)
                                   hits == {k \in 0..(self.line - 1) :
                                       n > At(self.newline_indices, k)}
                               IN  IF hits = {} THEN Some(PositionNew(0, n))
                                   ELSE LET i == SetMax(hits)
                                        IN  Some(PositionNew(i,
                                                n - At(self.newline_indices, i)))

\* after_position that always steps to the next column
after_position_same_line(self, f) ==
    LET e == next_end_position(self, f)
    IN  IF ~IsSome(e) THEN e
        ELSE Some(PositionNew(Unwrap(e)[1], Unwrap(e)[2] + 1))

after_position(self, f) ==
    LET e == next_end_position(self, f)
    IN  IF ~IsSome(e) THEN e
        ELSE LET p == Unwrap(e)
                 w == line_width(self, p[1])
             IN  IF ~IsSome(w) THEN Panic
                 ELSE IF p[2] < Unwrap(w)
                      THEN Some(PositionNew(p[1], p[2] + 1))
                 ELSE Some(PositionNew(p[1] + 1, 0))

before_position(self, f) ==
    LET s == previous_position(self, f)
    IN  IF ~IsSome(s) THEN s
        ELSE LET p == Unwrap(s)
             IN  IF p[2] = 0
                 THEN IF p[1] = 0 THEN None
                      ELSE Some(PositionNew(p[1] - 1, 0))
                 ELSE Some(PositionNew(p[1], p[2] - 1))

next_keyword_position(self) == next_position(self, "is_alphanumeric")
previous_keyword_position(self) == previous_position(self, "is_alphanumeric")
next_symbol_position(self) == next_position(self, "is_symbol")
previous_symbol_position(self) == previous_position(self, "is_symbol")
next_keyword_end_position(self) == next_end_position(self, "is_alphanumeric")
next_symbol_end_position(self) == next_end_position(self, "is_symbol")

(* ------------------------------- Editor ------------------------------- *)

\* Paren { open, close }
Paren(open, close) == [open |-> open, close |-> close]

\* the closure of the forward scan of match_pair, run from offset k with
\* the nesting counter at level
RECURSIVE ScanForward(_, _, _, _)
ScanForward(buf, k, level, p) ==
    IF k >= Len(buf) THEN None
    ELSE IF At(buf, k) = p.open THEN ScanForward(buf, k + 1, level + 1, p)
    ELSE IF At(buf, k) # p.close THEN ScanForward(buf, k + 1, level, p)
    ELSE IF level = 0 THEN Some(k)
    ELSE ScanForward(buf, k + 1, level - 1, p)

\* a backward scan that takes the nearest opening delimiter, whatever the
\* nesting
RECURSIVE ScanBackwardFlat(_, _, _, _)
ScanBackwardFlat(buf, k, level, p) ==
    IF k < 0 THEN None
    ELSE IF At(buf, k) = p.open THEN Some(k)
    ELSE ScanBackwardFlat(buf, k - 1, level, p)

\* the closure of the backward scan, run from offset k down to 0
RECURSIVE ScanBackward(_, _, _, _)
ScanBackward(buf, k, level, p) ==
    IF k < 0 THEN None
    ELSE IF At(buf, k) = p.close THEN ScanBackward(buf, k - 1, level + 1, p)
    ELSE IF At(buf, k) # p.open THEN ScanBackward(buf, k - 1, level, p)
    ELSE IF level = 0 THEN Some(k)
    ELSE ScanBackward(buf, k - 1, level - 1, p)

match_pair(self, p) ==
    LET co == current_offset(self)
    IN  IF co = Panic \/ Unwrap(co) >= Len(self.buffer) THEN Panic
        ELSE LET n == Unwrap(co)
                 x == At(self.buffer, n)
             IN  IF x = p.open THEN ScanForward(self.buffer, n + 1, 0, p)
                 ELSE IF x = p.close
                 THEN ScanBackward(self.buffer, n - 1, 0, p)
                 ELSE None

match_paren(self) == match_pair(self, Paren("(", ")"))

\* line == self.line_count() - 1
is_last_line(self, l) ==
    IF line_count(self) = 0
    THEN IF overflow_checks THEN Panic ELSE Some(l = UsizeMax)
    ELSE Some(l = line_count(self) - 1)

delete_line(self, l) ==
    LET last == is_last_line(self, l)
    IN  IF last = Panic THEN PanicIn(self)
        ELSE IF Unwrap(last)
             THEN LET w == line_width(self, l)
                  IN  IF ~IsSome(w) THEN PanicIn(self)
                      ELSE delete_range(self, l, 0, l, Unwrap(w))
        ELSE delete_range(self, l, 0, l + 1, 0)

\* Core::reset: the buffer replaced, the line index rebuilt from it
reset(self, buf, l, c) ==
    LET found == NewlinePositions(buf)
        indices == IF found # << >> /\ found[Len(found)] = Len(buf)
                   THEN found ELSE Append(found, Len(buf))
    IN  IF ~(Len(indices) > l) THEN PanicIn(self)
        ELSE LET width == At(indices, l)
                              - (IF l = 0 THEN 0 ELSE At(indices, l - 1) + 1)
             IN  IF ~(width >= c) THEN PanicIn(self)
                 ELSE MkCore(buf, indices, l, c)

\* Editor::line_buffer: the characters of a line, its newline excluded
line_buffer(self, l) ==
    IF line_count(self) <= l THEN None
    ELSE LET w == line_width(self, l)
             beginning == offset(self, l, 0)
             end == IF IsSome(w) THEN offset(self, l, Unwrap(w)) ELSE Panic
         IN  IF ~IsSome(beginning) \/ ~IsSome(end) THEN Panic
             ELSE IF Unwrap(beginning) > Unwrap(end)
                     \/ Unwrap(end) > Len(self.buffer) THEN Panic
             ELSE Some(SubSeq(self.buffer, Unwrap(beginning) + 1, Unwrap(end)))

\* the order of char: by scalar value
CharCode(ch) ==
    CASE ch = NL -> 10
      [] ch = "(" -> 40
      [] ch = ")" -> 41
      [] ch = "*" -> 42
      [] ch = "a" -> 97

\* the order of [char]: lexicographic
SliceLess(s, u) ==
    \E k \in 0..Len(s) :
        /\ k <= Len(u)
        /\ \A j \in 1..k : s[j] = u[j]
        /\ IF k = Len(s) THEN k < Len(u)
           ELSE k < Len(u) /\ CharCode(s[k + 1]) < CharCode(u[k + 1])

\* the text of the lines taken in the order given, each followed by "\n"
RECURSIVE JoinLines(_, _)
JoinLines(lines, order) ==
    IF order = << >> THEN << >>
    ELSE Unwrap(lines[Head(order) + 1]) \o <<NL>>
             \o JoinLines(lines, Tail(order))

\* the sort is stable: among equal lines the earlier stays ahead
sort_line_range(self, a, b) ==
    LET n == line_count(self)
        lines == [k \in 1..n |-> line_buffer(self, k - 1)]
        key(k) == Unwrap(lines[k + 1])
        Ahead(j, k) == SliceLess(key(j), key(k)) \/ (key(j) = key(k) /\ j < k)
        place(k) == IF k >= a /\ k < b
                    THEN a + Cardinality({j \in a..(b - 1) : Ahead(j, k)})
                    ELSE k
        order == [q \in 1..n |-> CHOOSE k \in 0..(n - 1) : place(k) = q - 1]
    IN  IF \E k \in 1..n : ~IsSome(lines[k]) THEN PanicIn(self)
        ELSE IF a > b \/ b > n THEN PanicIn(self)
        ELSE IF self.line >= n THEN PanicIn(self)
        ELSE reset(self, JoinLines(lines, order), place(self.line), self.column)

sort_line(self) == sort_line_range(self, 0, line_count(self))

\* Editor::join: the newline that ends the line replaced by a space
join(self, l) ==
    LET c == line_width(self, l)
    IN  IF ~IsSome(c) THEN PanicIn(self)
        ELSE LET deleted == delete_at(self, l, Unwrap(c))
             IN  IF deleted.panicked THEN deleted
                 ELSE insert_at(deleted, " ", l, Unwrap(c))

\* if let Some(pos) = ... { self.set_line(pos.line); self.set_column(pos.column); }
MoveTo(self, pos) ==
    IF pos = Panic THEN PanicIn(self)
    ELSE IF pos = None THEN self
    ELSE LET lined == set_line(self, Unwrap(pos)[1])
         IN  IF lined.panicked THEN lined
             ELSE set_column(lined, Unwrap(pos)[2])

move_to_beginning_of_next_keyword(self) ==
    MoveTo(self, next_keyword_position(self))

move_to_beginning_of_previous_keyword(self) ==
    MoveTo(self, previous_keyword_position(self))

(* ------------------------------- Core2 -------------------------------- *)

\* a Core2 value: the buffer is a vector of lines
MkCore2(b, l, c, vc) ==
    [buffer |-> b, line |-> l, column |-> c, virtual_column |-> vc,
     panicked |-> FALSE]

\* Result<_, PositionError>
Ok(x) == <<"Ok", x>>
ErrLine(n) == <<"Line", n>>
ErrColumn(n) == <<"Column", n>>
IsOk(r) == r[1] = "Ok"

\* no Result: the call panicked
Panicked == <<"Panic", 0>>

\* the pieces of a text between its newlines, the empty piece after a final
\* newline included
str_split(chars) ==
    LET nl == NewlinePositions(chars)
    IN  [k \in 1..(Len(nl) + 1) |->
            SubSeq(chars,
                   (IF k = 1 THEN 0 ELSE nl[k - 1] + 1) + 1,
                   IF k = Len(nl) + 1 THEN Len(chars) ELSE nl[k])]

\* str::lines(): a final newline ends the last line and starts no other
str_lines(chars) ==
    LET pieces == str_split(chars)
    IN  IF pieces[Len(pieces)] = << >>
        THEN SubSeq(pieces, 1, Len(pieces) - 1)
        ELSE pieces

Core2New(text, l, c) ==
    LET buf == str_lines(text)
    IN  IF Len(buf) <= l
        THEN [tag |-> ErrLine(l), core |-> MkCore2(<< >>, 0, 0, None)]
        ELSE IF Len(At(buf, l)) < c
        THEN [tag |-> ErrColumn(c), core |-> MkCore2(<< >>, 0, 0, None)]
        ELSE [tag |-> Ok(0), core |-> MkCore2(buf, l, c, None)]

Core2_line_count(self) == Len(self.buffer)

Core2_line_width(self, l) ==
    IF l < Len(self.buffer) THEN Ok(Len(At(self.buffer, l))) ELSE ErrLine(l)

\* self.line_width(self.line).unwrap()
Core2_current_line_width(self) ==
    LET w == Core2_line_width(self, self.line)
    IN  IF IsOk(w) THEN Some(w[2]) ELSE Panic

Core2_move_left(self, n) ==
    LET c == IF self.column < n THEN 0 ELSE self.column - n
    IN  IF c # self.column
        THEN [self EXCEPT !.column = c, !.virtual_column = None]
        ELSE self

Core2_move_right(self, n) ==
    LET w == Core2_current_line_width(self)
        sum == self.column + n
    IN  IF w = Panic THEN PanicIn(self)
        ELSE IF sum > UsizeMax /\ overflow_checks THEN PanicIn(self)
        ELSE IF sum % (UsizeMax + 1) >= Unwrap(w)
             THEN [self EXCEPT !.column = Unwrap(w)]
             ELSE [self EXCEPT !.column = sum % (UsizeMax + 1)]

\* the end of move_up and move_down: the remembered column is taken up, and
\* a column beyond the width is remembered and truncated
Core2Settle(self) ==
    LET taken == IF IsSome(self.virtual_column)
                 THEN [self EXCEPT !.column = Unwrap(self.virtual_column)]
                 ELSE self
        w == Core2_current_line_width(taken)
    IN  IF w = Panic THEN PanicIn(taken)
        ELSE IF Unwrap(w) < taken.column
             THEN [taken EXCEPT !.virtual_column = Some(taken.column),
                                !.column = Unwrap(w)]
             ELSE taken

Core2_move_up(self, n) ==
    Core2Settle(IF self.line < n THEN [self EXCEPT !.line = 0]
                ELSE [self EXCEPT !.line = self.line - n])

Core2_move_down(self, n) ==
    LET lc == Core2_line_count(self)
        sum == self.line + n
    IN  IF sum > UsizeMax /\ overflow_checks THEN PanicIn(self)
        ELSE IF sum % (UsizeMax + 1) >= lc
             THEN IF lc = 0 /\ overflow_checks THEN PanicIn(self)
                  ELSE Core2Settle([self EXCEPT
                           !.line = IF lc = 0 THEN UsizeMax ELSE lc - 1])
             ELSE Core2Settle([self EXCEPT !.line = sum % (UsizeMax + 1)])

\* insert_at and delete_at give the Core2 they leave and the Result; the
\* l.remove(column) of delete_at panics for the column after the last
\* character
Core2_insert_at(self, ch, l, c) ==
    IF ~(l < Len(self.buffer)) THEN [core |-> self, res |-> ErrLine(l)]
    ELSE IF ~(c <= Len(At(self.buffer, l)))
    THEN [core |-> self, res |-> ErrColumn(c)]
    ELSE LET edited == [self EXCEPT
                 !.buffer[l + 1] = VecInsert(At(self.buffer, l), c, ch)]
         IN  [core |-> IF self.line = l /\ c <= self.column
                       THEN [edited EXCEPT !.column = self.column + 1]
                       ELSE edited,
              res |-> Ok(0)]

Core2_delete_at(self, l, c) ==
    IF ~(l < Len(self.buffer)) THEN [core |-> self, res |-> ErrLine(l)]
    ELSE IF ~(c <= Len(At(self.buffer, l)))
    THEN [core |-> self, res |-> ErrColumn(c)]
    ELSE IF c >= Len(At(self.buffer, l))
    THEN [core |-> PanicIn(self), res |-> Panicked]
    ELSE LET edited == [self EXCEPT
                 !.buffer[l + 1] = VecRemove(At(self.buffer, l), c)]
         IN  [core |-> IF self.line = l /\ c < self.column
                       THEN [edited EXCEPT !.column = self.column - 1]
                       ELSE edited,
              res |-> Ok(0)]

(* ------------------------- the state machine -------------------------- *)

Call(op, text, l, c, el, ec, n) ==
    [op |-> op, text |-> text, line |-> l, column |-> c,
     end_line |-> el, end_column |-> ec, n |-> n]

\* construction: Core::new on every text and cursor of the bounded sets
Init ==
    \E text \in Texts(MaxLen), l \in PosArgs, c \in PosArgs :
        LET r == CoreNew(text, l, c)
        IN  /\ new_result = r.tag
            /\ buffer = r.core.buffer
            /\ newline_indices = r.core.newline_indices
            /\ line = r.core.line
            /\ column = r.core.column
            /\ panicked = FALSE
            /\ overflow_checks \in BOOLEAN
            /\ call = Call("new", text, l, c, 0, 0, 0)
            /\ old = r.core
            /\ result = None
            /\ virtual_column = None
            /\ remembered = None

\* `call` and `old` trace one call of a run: the construction, or the last
\* call when the run traces it (the run is then followed no further); an
\* untraced call leaves Untraced and NoCore in them.
Untraced == Call("none", << >>, 0, 0, 0, 0, 0)
NoCore == MkCore(<< >>, << >>, 0, 0)

\* a Core exists, no call has panicked, and no call was traced yet
Live == new_result = "Ok" /\ ~panicked /\ call.op \in {"new", "none"}

Become(r, c, traced) ==
    /\ Len(r.buffer) <= MaxLen
    /\ buffer' = r.buffer
    /\ newline_indices' = r.newline_indices
    /\ line' = r.line
    /\ column' = r.column
    /\ panicked' = r.panicked
    /\ call' = (IF traced THEN c ELSE Untraced)
    /\ old' = (IF traced THEN this ELSE NoCore)
    /\ result' = None
    /\ UNCHANGED <<new_result, overflow_checks, virtual_column, remembered>>

SetColumn(traced) ==
    /\ Live
    /\ \E n \in PosArgs :
          Become(set_column(this, n),
                 Call("set_column", << >>, 0, 0, 0, 0, n), traced)

SetLine(traced) ==
    /\ Live
    /\ \E n \in PosArgs :
          Become(set_line(this, n),
                 Call("set_line", << >>, 0, 0, 0, 0, n), traced)

MoveLeft(traced) ==
    /\ Live
    /\ \E n \in NArgs :
          Become(move_left(this, n),
                 Call("move_left", << >>, 0, 0, 0, 0, n), traced)

MoveRight(traced) ==
    /\ Live
    /\ \E n \in NArgs :
          Become(move_right(this, n),
                 Call("move_right", << >>, 0, 0, 0, 0, n), traced)

MoveUp(traced) ==
    /\ Live
    /\ \E n \in NArgs :
          Become(move_up(this, n),
                 Call("move_up", << >>, 0, 0, 0, 0, n), traced)

MoveDown(traced) ==
    /\ Live
    /\ \E n \in NArgs :
          Become(move_down(this, n),
                 Call("move_down", << >>, 0, 0, 0, 0, n), traced)

InsertAt(traced) ==
    /\ Live
    /\ \E ch \in Chars, l \in PosArgs, c \in PosArgs :
          Become(insert_at(this, ch, l, c),
                 Call("insert_at", <<ch>>, l, c, 0, 0, 0), traced)

InsertStringAt(traced) ==
    /\ Live
    /\ \E s \in Texts(MaxStr), l \in PosArgs, c \in PosArgs :
          Become(insert_string_at(this, s, l, c),
                 Call("insert_string_at", s, l, c, 0, 0, 0), traced)

DeleteAt(traced) ==
    /\ Live
    /\ \E l \in PosArgs, c \in PosArgs :
          Become(delete_at(this, l, c),
                 Call("delete_at", << >>, l, c, 0, 0, 0), traced)

\* Position::partial_cmp: line-major, then column
PositionLe(sl, sc, el, ec) == sl < el \/ (sl = el /\ sc <= ec)

\* both endpoints address a position of the Core and start <= end
OrderedRange(self, sl, sc, el, ec) ==
    /\ IsSome(offset(self, sl, sc))
    /\ IsSome(offset(self, el, ec))
    /\ PositionLe(sl, sc, el, ec)

DeleteRange(traced) ==
    /\ Live
    /\ \E sl \in PosArgs, sc \in PosArgs, el \in PosArgs, ec \in PosArgs :
          /\ OrderedRange(this, sl, sc, el, ec)
          /\ Become(delete_range(this, sl, sc, el, ec),
                    Call("delete_range", << >>, sl, sc, el, ec, 0), traced)

\* delete_range handed an endpoint that is no position, or end < start
DeleteRangeMisused(traced) ==
    /\ Live
    /\ \E sl \in PosArgs, sc \in PosArgs, el \in PosArgs, ec \in PosArgs :
          /\ ~OrderedRange(this, sl, sc, el, ec)
          /\ Become(delete_range(this, sl, sc, el, ec),
                    Call("delete_range", << >>, sl, sc, el, ec, 0), traced)

\* insert_at and delete_at handed a target (line, column) that offset accepts
InsertAtValid ==
    /\ Live
    /\ \E ch \in Chars, l \in PosArgs, c \in PosArgs :
          /\ IsSome(offset(this, l, c))
          /\ Become(insert_at(this, ch, l, c),
                    Call("insert_at", <<ch>>, l, c, 0, 0, 0), FALSE)

DeleteAtValid ==
    /\ Live
    /\ \E l \in PosArgs, c \in PosArgs :
          /\ IsSome(offset(this, l, c))
          /\ Become(delete_at(this, l, c),
                    Call("delete_at", << >>, l, c, 0, 0, 0), FALSE)

\* every call of the Core API used in the claims, with any arguments
Next ==
    \/ SetColumn(FALSE)
    \/ SetLine(FALSE)
    \/ MoveLeft(FALSE)
    \/ MoveRight(FALSE)
    \/ MoveUp(FALSE)
    \/ MoveDown(FALSE)
    \/ InsertAt(FALSE)
    \/ InsertStringAt(FALSE)
    \/ DeleteAt(FALSE)
    \/ DeleteRange(FALSE)
    \/ DeleteRangeMisused(FALSE)

Spec == Init /\ [][Next]_vars

\* the same calls, the last call of a run traced in `call` and `old`
NextTraced ==
    \E traced \in BOOLEAN :
        \/ SetColumn(traced)
        \/ SetLine(traced)
        \/ MoveLeft(traced)
        \/ MoveRight(traced)
        \/ MoveUp(traced)
        \/ MoveDown(traced)
        \/ InsertAt(traced)
        \/ InsertStringAt(traced)
        \/ DeleteAt(traced)
        \/ DeleteRange(traced)
        \/ DeleteRangeMisused(traced)

SpecTraced == Init /\ [][NextTraced]_vars

\* the calls of Next, delete_range only with valid endpoints start <= end
NextContract ==
    \/ SetColumn(FALSE)
    \/ SetLine(FALSE)
    \/ MoveLeft(FALSE)
    \/ MoveRight(FALSE)
    \/ MoveUp(FALSE)
    \/ MoveDown(FALSE)
    \/ InsertAt(FALSE)
    \/ InsertStringAt(FALSE)
    \/ DeleteAt(FALSE)
    \/ DeleteRange(FALSE)

SpecContract == Init /\ [][NextContract]_vars

\* only insert_at and delete_at, only with valid targets
NextEdits ==
    \/ InsertAtValid
    \/ DeleteAtValid

SpecEdits == Init /\ [][NextEdits]_vars

previous_keyword_end_position(self) ==
    previous_end_position(self, "is_alphanumeric")
previous_symbol_end_position(self) ==
    previous_end_position(self, "is_symbol")

\* the searches are run on texts that also hold a symbol
SearchChars == Chars \cup {"*"}
SearchTexts(n) == UNION {[1..k -> SearchChars] : k \in 0..n}

InitSearch ==
    \E text \in SearchTexts(MaxLen), l \in PosArgs, c \in PosArgs :
        LET r == CoreNew(text, l, c)
        IN  /\ new_result = r.tag
            /\ buffer = r.core.buffer
            /\ newline_indices = r.core.newline_indices
            /\ line = r.core.line
            /\ column = r.core.column
            /\ panicked = FALSE
            /\ overflow_checks \in BOOLEAN
            /\ call = Call("new", text, l, c, 0, 0, 0)
            /\ old = r.core
            /\ result = None
            /\ virtual_column = None
            /\ remembered = None

\* a search: the Core is only read, the answer is kept in `result`
Query(op, r) ==
    /\ result' = r
    /\ panicked' = (r = Panic)
    /\ call' = Call(op, << >>, 0, 0, 0, 0, 0)
    /\ old' = this
    /\ UNCHANGED <<buffer, newline_indices, line, column,
                   new_result, overflow_checks, virtual_column, remembered>>

NextKeywordPosition ==
    /\ Live
    /\ Query("next_keyword_position", next_keyword_position(this))

NextSymbolPosition ==
    /\ Live
    /\ Query("next_symbol_position", next_symbol_position(this))

PreviousKeywordPosition ==
    /\ Live
    /\ Query("previous_keyword_position", previous_keyword_position(this))

PreviousSymbolPosition ==
    /\ Live
    /\ Query("previous_symbol_position", previous_symbol_position(this))

NextKeywordEndPosition ==
    /\ Live
    /\ Query("next_keyword_end_position", next_keyword_end_position(this))

NextSymbolEndPosition ==
    /\ Live
    /\ Query("next_symbol_end_position", next_symbol_end_position(this))

PreviousKeywordEndPosition ==
    /\ Live
    /\ Query("previous_keyword_end_position",
             previous_keyword_end_position(this))

PreviousSymbolEndPosition ==
    /\ Live
    /\ Query("previous_symbol_end_position",
             previous_symbol_end_position(this))

\* a search handed the class f; `call.text` holds the name of f
QueryWith(op, f, r) ==
    /\ result' = r
    /\ panicked' = (r = Panic)
    /\ call' = Call(op, <<f>>, 0, 0, 0, 0, 0)
    /\ old' = this
    /\ UNCHANGED <<buffer, newline_indices, line, column,
                   new_result, overflow_checks, virtual_column, remembered>>

AfterPosition ==
    /\ Live
    /\ \E f \in Classes :
          QueryWith("after_position", f, after_position(this, f))

BeforePosition ==
    /\ Live
    /\ \E f \in Classes :
          QueryWith("before_position", f, before_position(this, f))

\* the calls of Next, untraced, and then one search
NextSearch ==
    \/ Next
    \/ NextKeywordPosition
    \/ NextSymbolPosition
    \/ PreviousKeywordPosition
    \/ PreviousSymbolPosition
    \/ NextKeywordEndPosition
    \/ NextSymbolEndPosition
    \/ PreviousKeywordEndPosition
    \/ PreviousSymbolEndPosition
    \/ AfterPosition
    \/ BeforePosition

SpecSearch == InitSearch /\ [][NextSearch]_vars

\* match_pair is run on texts that hold parentheses, one character longer
\* than the other texts so that a nested pair fits
MaxParenLen == MaxLen + 1
ParenChars == {"(", ")", NL}
ParenTexts(n) == UNION {[1..k -> ParenChars] : k \in 0..n}
\* the pairs handed to match_pair: that of match_paren and its reverse
Parens == {Paren("(", ")"), Paren(")", "(")}

InitParen ==
    \E text \in ParenTexts(MaxParenLen), l \in PosArgs, c \in PosArgs :
        LET r == CoreNew(text, l, c)
        IN  /\ new_result = r.tag
            /\ buffer = r.core.buffer
            /\ newline_indices = r.core.newline_indices
            /\ line = r.core.line
            /\ column = r.core.column
            /\ panicked = FALSE
            /\ overflow_checks \in BOOLEAN
            /\ call = Call("new", text, l, c, 0, 0, 0)
            /\ old = r.core
            /\ result = None
            /\ virtual_column = None
            /\ remembered = None

\* `call.text` holds the pair as <<open, close>>
MatchPair ==
    /\ Live
    /\ \E p \in Parens :
          /\ result' = match_pair(this, p)
          /\ panicked' = (match_pair(this, p) = Panic)
          /\ call' = Call("match_pair", <<p.open, p.close>>, 0, 0, 0, 0, 0)
    /\ old' = this
    /\ UNCHANGED <<buffer, newline_indices, line, column,
                   new_result, overflow_checks, virtual_column, remembered>>

\* the calls of Next, untraced, and then one match_pair
NextParen ==
    \/ Next
    \/ MatchPair

SpecParen == InitParen /\ [][NextParen]_vars

\* a traced call of an Editor operation: the run ends with it
Finish(r, c) ==
    /\ buffer' = r.buffer
    /\ newline_indices' = r.newline_indices
    /\ line' = r.line
    /\ column' = r.column
    /\ panicked' = r.panicked
    /\ call' = c
    /\ old' = this
    /\ result' = None
    /\ UNCHANGED <<new_result, overflow_checks, virtual_column, remembered>>

DeleteLine ==
    /\ Live
    /\ \E l \in PosArgs :
          Finish(delete_line(this, l),
                 Call("delete_line", << >>, l, 0, 0, 0, 0))

SortLine ==
    /\ Live
    /\ Finish(sort_line(this), Call("sort_line", << >>, 0, 0, 0, 0, 0))

Join ==
    /\ Live
    /\ \E l \in PosArgs :
          Finish(join(this, l), Call("join", << >>, l, 0, 0, 0, 0))

\* the calls of Next, untraced, and then one call of an Editor operation
\* built from them
NextEditor ==
    \/ Next
    \/ DeleteLine
    \/ SortLine
    \/ Join

SpecEditor == InitSearch /\ [][NextEditor]_vars

\* texts given as &str that hold a character of several bytes
UniTexts(n) == UNION {[1..k -> UniChars] : k \in 0..n}

InitUnicode ==
    \E text \in UniTexts(MaxLen), l \in PosArgs, c \in PosArgs :
        LET s == StrOf(text)
            r == CoreNew(str_chars(s), l, c)
        IN  /\ new_result = r.tag
            /\ buffer = r.core.buffer
            /\ newline_indices = r.core.newline_indices
            /\ line = r.core.line
            /\ column = r.core.column
            /\ panicked = FALSE
            /\ overflow_checks \in BOOLEAN
            /\ call = Call("new", s, l, c, 0, 0, 0)
            /\ old = r.core
            /\ result = None
            /\ virtual_column = None
            /\ remembered = None

\* insert_at with every character of the texts
InsertScalar ==
    /\ Live
    /\ \E ch \in UniChars, l \in PosArgs, c \in PosArgs :
          Become(insert_at(this, ch, l, c),
                 Call("insert_at", <<ch>>, l, c, 0, 0, 0), TRUE)

NextUnicode ==
    \/ Next
    \/ InsertScalar

SpecUnicode == InitUnicode /\ [][NextUnicode]_vars

MoveToBeginningOfNextKeyword ==
    /\ Live
    /\ Finish(move_to_beginning_of_next_keyword(this),
              Call("move_to_beginning_of_next_keyword", << >>, 0, 0, 0, 0, 0))

MoveToBeginningOfPreviousKeyword ==
    /\ Live
    /\ Finish(move_to_beginning_of_previous_keyword(this),
              Call("move_to_beginning_of_previous_keyword", << >>, 0, 0, 0, 0, 0))

\* the calls of Next, untraced, and then one keyword motion
NextMotion ==
    \/ Next
    \/ MoveToBeginningOfNextKeyword
    \/ MoveToBeginningOfPreviousKeyword

SpecMotion == InitSearch /\ [][NextMotion]_vars

(* ------------------------ the Core2 state machine --------------------- *)

\* the Core2 value held by the variables
this2 ==
    [buffer |-> buffer, line |-> line, column |-> column,
     virtual_column |-> virtual_column, panicked |-> panicked]

\* `remembered` after a horizontal move that changed the column
Discarded == <<"discarded", 0>>

\* the column a vertical move starts from: the remembered one if there is one
StartColumn(rem, c) == IF IsSome(rem) THEN Unwrap(rem) ELSE c

\* `remembered` after a vertical move that ended on a line of width w
RememberedAfter(rem, c, w) ==
    IF StartColumn(rem, c) > w THEN Some(StartColumn(rem, c))
    ELSE IF rem = Discarded THEN None
    ELSE rem

\* the characters and lines of a Core2 buffer, as a bound of the runs
Core2Size(buf) ==
    LET RECURSIVE Sum(_)
        Sum(k) == IF k = 0 THEN 0 ELSE Len(buf[k]) + 1 + Sum(k - 1)
    IN  Sum(Len(buf))

InitCore2 ==
    \E text \in Texts(MaxLen), l \in PosArgs, c \in PosArgs :
        LET r == Core2New(text, l, c)
        IN  /\ new_result = r.tag[1]
            /\ buffer = r.core.buffer
            /\ newline_indices = << >>
            /\ line = r.core.line
            /\ column = r.core.column
            /\ virtual_column = r.core.virtual_column
            /\ panicked = FALSE
            /\ overflow_checks \in BOOLEAN
            /\ call = Call("new", text, l, c, 0, 0, 0)
            /\ old = [core |-> r.core, remembered |-> None]
            /\ result = r.tag
            /\ remembered = None

\* a Core2 exists and no call has panicked
Live2 == new_result = "Ok" /\ ~panicked

\* a call of Core2: every call is traced, and the run goes on after it
Step2(r, res, c, rem) ==
    /\ Core2Size(r.buffer) <= MaxLen + 1
    /\ buffer' = r.buffer
    /\ line' = r.line
    /\ column' = r.column
    /\ virtual_column' = r.virtual_column
    /\ panicked' = r.panicked
    /\ result' = res
    /\ call' = c
    /\ old' = [core |-> this2, remembered |-> remembered]
    /\ remembered' = rem
    /\ UNCHANGED <<newline_indices, new_result, overflow_checks>>

Horizontal(r, c) ==
    Step2(r, None, c, IF r.column # column THEN Discarded ELSE remembered)

Vertical(r, c) ==
    Step2(r, None, c,
          IF r.panicked THEN remembered
          ELSE RememberedAfter(remembered, column,
                               Len(At(r.buffer, r.line))))

Core2MoveLeft ==
    /\ Live2
    /\ \E n \in NArgs :
          Horizontal(Core2_move_left(this2, n),
                     Call("move_left", << >>, 0, 0, 0, 0, n))

Core2MoveRight ==
    /\ Live2
    /\ \E n \in NArgs :
          Horizontal(Core2_move_right(this2, n),
                     Call("move_right", << >>, 0, 0, 0, 0, n))

Core2MoveUp ==
    /\ Live2
    /\ \E n \in NArgs :
          Vertical(Core2_move_up(this2, n),
                   Call("move_up", << >>, 0, 0, 0, 0, n))

Core2MoveDown ==
    /\ Live2
    /\ \E n \in NArgs :
          Vertical(Core2_move_down(this2, n),
                   Call("move_down", << >>, 0, 0, 0, 0, n))

Core2InsertAt ==
    /\ Live2
    /\ \E l \in PosArgs, c \in PosArgs :
          LET r == Core2_insert_at(this2, "a", l, c)
          IN  Step2(r.core, r.res,
                    Call("insert_at", <<"a">>, l, c, 0, 0, 0), remembered)

Core2DeleteAt ==
    /\ Live2
    /\ \E l \in PosArgs, c \in PosArgs :
          LET r == Core2_delete_at(this2, l, c)
          IN  Step2(r.core, r.res,
                    Call("delete_at", << >>, l, c, 0, 0, 0), remembered)

NextCore2 ==
    \/ Core2MoveLeft
    \/ Core2MoveRight
    \/ Core2MoveUp
    \/ Core2MoveDown
    \/ Core2InsertAt
    \/ Core2DeleteAt

SpecCore2 == InitCore2 /\ [][NextCore2]_vars

(* --------------------- notions the claims refer to -------------------- *)

\* the line a buffer offset lies on: the number of newlines before it
LineOfOffset(buf, i) == Cardinality({j \in 0..(i - 1) : At(buf, j) = NL})

\* the number of lines of a text: one more than its newlines
LinesOf(buf) == LineOfOffset(buf, Len(buf)) + 1

\* the number of characters of line n, its newline excluded
WidthOf(buf, n) ==
    Cardinality({i \in 0..(Len(buf) - 1) :
                    At(buf, i) # NL /\ LineOfOffset(buf, i) = n})

\* the number of buffer characters before column c of line l
Preceding(buf, l, c) ==
    Cardinality({i \in 0..(Len(buf) - 1) : LineOfOffset(buf, i) < l}) + c

\* every newline offset in ascending order, then the buffer length
FullIndex(buf) == Append(NewlinePositions(buf), Len(buf))

StrictlyAscending(s) == \A k \in 1..(Len(s) - 1) : s[k] < s[k + 1]

CursorValid(self) ==
    /\ self.line < line_count(self)
    /\ IsSome(line_width(self, self.line))
    /\ self.column <= Unwrap(line_width(self, self.line))

\* (l, c) is a target in the sense of the claims: an existing line and a
\* column up to its width
ValidTarget(self, l, c) ==
    /\ l < line_count(self)
    /\ IsSome(line_width(self, l))
    /\ c <= Unwrap(line_width(self, l))

\* buffer, line index and cursor are the same in both values
SameText(x, y) ==
    /\ x.buffer = y.buffer
    /\ x.newline_indices = y.newline_indices
    /\ x.line = y.line
    /\ x.column = y.column

(* ------------------------------ claims -------------------------------- *)

\* C1: after every call of a run that hands delete_range only valid
\* endpoints start <= end, the cursor satisfies line < line_count() and
\* column <= line_width(line), so that current_offset() does not fail.
C1_CursorStaysValid ==
    (new_result = "Ok" /\ ~panicked) =>
        (CursorValid(this) /\ IsSome(current_offset(this)))

\* C2: at every state reachable from Core::new by mutations the line index
\* is non-empty and strictly ascending, and a Core built from the empty text
\* has one line of width 0.
C2_IndexNonEmptyAscending ==
    new_result = "Ok" =>
        /\ line_count(this) >= 1
        /\ StrictlyAscending(newline_indices)
        /\ (call.op = "new" /\ call.text = << >>) =>
              (line_count(this) = 1 /\ line_width(this, 0) = Some(0))

\* C3: at every reachable state, the state Core::new returns included, the
\* line index is the offsets of all newlines of the buffer in ascending
\* order followed by one final entry equal to the buffer length.
C3_IndexIsNewlinesPlusLength ==
    new_result = "Ok" => newline_indices = FullIndex(buffer)

\* C4: after any sequence of insert_at and delete_at calls with valid
\* targets the Core equals Core::new of the resulting text and cursor.
C4_EditsAgreeWithNew ==
    (new_result = "Ok" /\ ~panicked) =>
        CoreNew(buffer, line, column) = [tag |-> "Ok", core |-> this]

\* C5: at every reachable state, for every character and every valid target,
\* insert_at followed by delete_at at the same target restores buffer, line
\* index and cursor.
C5_InsertThenDeleteRestores ==
    (new_result = "Ok" /\ ~panicked) =>
        \A ch \in Chars, l \in PosArgs, c \in PosArgs :
            ValidTarget(this, l, c) =>
                delete_at(insert_at(this, ch, l, c), l, c) = this

\* the traced call is one of the single-target mutations and its target is
\* out of range for the Core it was applied to
TargetOutOfRange ==
    /\ call.op \in {"insert_at", "insert_string_at", "delete_at"}
    /\ \/ call.line >= line_count(old)
       \/ call.column > Unwrap(line_width(old, call.line))

\* C6: insert_at, insert_string_at and delete_at called with
\* line >= line_count() or column > line_width(line) return normally and
\* leave buffer, line index and cursor unchanged.
C6_OutOfRangeTargetIsNoOp ==
    TargetOutOfRange => (~panicked /\ SameText(this, old))

\* C6 witness: a non-empty string was handed to insert_string_at with a
\* column beyond the width of an existing line.
C6_Witness ==
    /\ call.op = "insert_string_at"
    /\ call.text # << >>
    /\ call.line < line_count(old)
    /\ call.column > Unwrap(line_width(old, call.line))
    /\ ~panicked

\* the traced call is delete_range and one of its endpoints is no position
EndpointOutOfRange ==
    /\ call.op = "delete_range"
    /\ \/ ~ValidTarget(old, call.line, call.column)
       \/ ~ValidTarget(old, call.end_line, call.end_column)

C8_DeleteAtRemovesOneOrNothing ==
    call.op = "delete_at" =>
        /\ ~panicked
        /\ \/ SameText(this, old)
           \/ /\ IsSome(offset(old, call.line, call.column))
              /\ Unwrap(offset(old, call.line, call.column)) < Len(old.buffer)
              /\ buffer = VecRemove(old.buffer,
                                    Unwrap(offset(old, call.line, call.column)))
        /\ (/\ call.line + 1 = line_count(old)
            /\ line_width(old, call.line) = Some(call.column)
            /\ Unwrap(offset(old, call.line, call.column)) = Len(old.buffer))
              => SameText(this, old)

\* C9: Core::new returns an error exactly when line >= the number of lines
\* of the text or column > the width of that line; otherwise the Core holds
\* the text and the cursor (line, column) as given.
C9_NewRejectsExactlyInvalidPositions ==
    call.op = "new" =>
        /\ new_result = "Err" <=>
              \/ call.line >= LinesOf(call.text)
              \/ call.column > WidthOf(call.text, call.line)
        /\ new_result = "Ok" =>
              (buffer = call.text /\ line = call.line /\ column = call.column)

\* C10: at every reachable state line_width(n) is none exactly when
\* n >= line_count() and otherwise the number of characters of line n;
\* offset(line, column) is none exactly when line >= line_count() or
\* column > line_width(line) and otherwise
\* (line == 0 ? 0 : index[line-1] + 1) + column, the number of buffer
\* characters preceding the position; neither panics.
C10_WidthAndOffset ==
    new_result = "Ok" =>
        \A l \in 0..(MaxPos + 1) :
            LET lw == line_width(this, l)
                width == WidthOf(buffer, l)
                before == Preceding(buffer, l, 0)
            IN  /\ lw # Panic
                /\ (lw = None) <=> (l >= line_count(this))
                /\ l < line_count(this) => lw = Some(width)
                /\ \A c \in 0..(MaxPos + 1) :
                      LET o == offset(this, l, c)
                      IN  /\ o # Panic
                          /\ (o = None) <=>
                                (l >= line_count(this) \/ c > width)
                          /\ o # None =>
                                /\ o = Some((IF l = 0 THEN 0
                                             ELSE At(newline_indices, l - 1) + 1)
                                            + c)
                                /\ o = Some(before + c)

\* C10 witness: after some call the buffer has a second line that holds a
\* character, and offset maps the end of that line to the buffer length.
C10_Witness ==
    /\ call.op = "none"
    /\ ~panicked
    /\ line_count(this) >= 2
    /\ line_width(this, 1) = Some(1)
    /\ offset(this, 1, 1) = Some(Len(buffer))

\* the inverse lookup via the line index: the line is the first one whose
\* index entry is not below the offset, the column the distance from the
\* start of that line
position_of(self, o) ==
    LET l == CHOOSE k \in 0..(line_count(self) - 1) :
                 /\ o <= At(self.newline_indices, k)
                 /\ \A j \in 0..(k - 1) : At(self.newline_indices, j) < o
    IN  <<l, o - (IF l = 0 THEN 0 ELSE At(self.newline_indices, l - 1) + 1)>>

\* the valid positions of a Core
ValidPositions(self) ==
    {p \in (0..(MaxPos + 1)) \X (0..(MaxPos + 1)) :
        ValidTarget(self, p[1], p[2])}

\* C11: at every reachable state offset is strictly increasing over the
\* valid positions in line-major order, distinct valid positions have
\* distinct offsets, and position_of(offset(line, column)) == (line, column)
\* for every valid (line, column).
C11_OffsetStrictlyIncreasing ==
    new_result = "Ok" =>
        \A p \in ValidPositions(this) :
            /\ IsSome(offset(this, p[1], p[2]))
            /\ position_of(this, Unwrap(offset(this, p[1], p[2]))) = p
            /\ \A q \in ValidPositions(this) :
                  (p[1] < q[1] \/ (p[1] = q[1] /\ p[2] < q[2])) =>
                      Unwrap(offset(this, p[1], p[2]))
                          < Unwrap(offset(this, q[1], q[2]))

\* C11 witness: after some call the Core has two lines, the first of them
\* not empty, so that the end of line 0 and the start of line 1 are distinct
\* valid positions.
C11_Witness ==
    /\ call.op = "none"
    /\ ~panicked
    /\ line_count(this) >= 2
    /\ IsSome(offset(this, 0, 1))
    /\ IsSome(offset(this, 1, 0))

\* (l, c) is a valid position of the text: a line of the text and a column
\* up to its width
ValidInText(buf, l, c) == l < LinesOf(buf) /\ c <= WidthOf(buf, l)

\* the text with s put in at offset i
Spliced(buf, s, i) ==
    SubSeq(buf, 1, i) \o s \o SubSeq(buf, i + 1, Len(buf))

\* C12: insert_string_at(s, line, column) at a valid target whose offset is
\* i leaves the buffer old[0..i] ++ s ++ old[i..]; the cursor offset grows
\* by len(s) when i <= old cursor offset and is unchanged otherwise.
C12_InsertStringSplices ==
    (call.op = "insert_string_at"
        /\ ValidInText(old.buffer, call.line, call.column)) =>
        LET i == Preceding(old.buffer, call.line, call.column)
            before == current_offset(old)
            after == current_offset(this)
        IN  /\ ~panicked
            /\ buffer = Spliced(old.buffer, call.text, i)
            /\ IsSome(before) /\ IsSome(after)
            /\ Unwrap(after) = IF i <= Unwrap(before)
                               THEN Unwrap(before) + Len(call.text)
                               ELSE Unwrap(before)

\* the text with the characters at offsets a .. b - 1 taken out
Cut(buf, a, b) == SubSeq(buf, 1, a) \o SubSeq(buf, b + 1, Len(buf))

\* C13: delete_range(start, end) for valid start <= end with offsets a <= b
\* leaves the buffer old[0..a] ++ old[b..]; a cursor at offset c ends at c
\* if c <= a, at a if a <= c <= b, and at c - (b - a) if c >= b.
C13_DeleteRangeCuts ==
    (call.op = "delete_range"
        /\ ValidInText(old.buffer, call.line, call.column)
        /\ ValidInText(old.buffer, call.end_line, call.end_column)
        /\ PositionLe(call.line, call.column,
                      call.end_line, call.end_column)) =>
        LET a == Preceding(old.buffer, call.line, call.column)
            b == Preceding(old.buffer, call.end_line, call.end_column)
            before == current_offset(old)
            after == current_offset(this)
        IN  /\ ~panicked
            /\ buffer = Cut(old.buffer, a, b)
            /\ IsSome(before) /\ IsSome(after)
            /\ Unwrap(after) = IF Unwrap(before) <= a THEN Unwrap(before)
                               ELSE IF Unwrap(before) <= b THEN a
                               ELSE Unwrap(before) - (b - a)

Min(x, y) == IF x <= y THEN x ELSE y
Max(x, y) == IF x >= y THEN x ELSE y

\* C14: move_right(n) sets the column to min(column + n, line_width(line))
\* and move_left(n) sets it to max(column - n, 0); both leave the cursor
\* line, the buffer and the line index unchanged.
C14_HorizontalMovesClamp ==
    /\ call.op = "move_right" =>
          /\ ~panicked
          /\ IsSome(line_width(old, old.line))
          /\ column = Min(old.column + call.n,
                          Unwrap(line_width(old, old.line)))
          /\ line = old.line
          /\ buffer = old.buffer
          /\ newline_indices = old.newline_indices
    /\ call.op = "move_left" =>
          /\ ~panicked
          /\ column = Max(old.column - call.n, 0)
          /\ line = old.line
          /\ buffer = old.buffer
          /\ newline_indices = old.newline_indices

\* C15: move_up(n) sets the line to max(line - n, 0) and move_down(n) sets
\* it to min(line + n, line_count() - 1); afterwards the column is
\* min(old column, width of the new line), whatever moves came before, so a
\* column truncated by a shorter line is not restored on a longer one.
C15_VerticalMovesClamp ==
    call.op \in {"move_up", "move_down"} =>
        /\ ~panicked
        /\ line = IF call.op = "move_up"
                  THEN Max(old.line - call.n, 0)
                  ELSE Min(old.line + call.n, line_count(old) - 1)
        /\ IsSome(line_width(old, line))
        /\ column = Min(old.column, Unwrap(line_width(old, line)))

\* C16: set_column(n) sets the column to n when n <= width of the current
\* line and otherwise changes nothing; set_line(n) sets the line to n when
\* n < line_count() and otherwise keeps the line; after set_line the column
\* is min(old column, width of the resulting line); neither changes the
\* buffer or the line index.
C16_SetColumnSetLine ==
    /\ call.op = "set_column" =>
          /\ ~panicked
          /\ IsSome(line_width(old, old.line))
          /\ column = IF call.n <= Unwrap(line_width(old, old.line))
                      THEN call.n ELSE old.column
          /\ line = old.line
          /\ buffer = old.buffer
          /\ newline_indices = old.newline_indices
    /\ call.op = "set_line" =>
          /\ ~panicked
          /\ line = IF call.n < line_count(old) THEN call.n ELSE old.line
          /\ IsSome(line_width(old, line))
          /\ column = Min(old.column, Unwrap(line_width(old, line)))
          /\ buffer = old.buffer
          /\ newline_indices = old.newline_indices

\* the position of offset r of a text: its line, and its distance from the
\* start of that line
TextPosition(buf, r) ==
    LET l == LineOfOffset(buf, r) IN <<l, r - Preceding(buf, l, 0)>>

\* the character class a search of the Core API hands on
ClassOf(op) ==
    IF op \in {"next_keyword_position", "previous_keyword_position",
               "next_keyword_end_position", "previous_keyword_end_position",
               "after_keyword_position", "before_keyword_position"}
    THEN "is_alphanumeric" ELSE "is_symbol"

\* the offsets r at or after offset cur with f(buffer[r]) that have a
\* character without f between cur and r
RunStartsAfter(buf, cur, f) ==
    {r \in 0..(Len(buf) - 1) :
        /\ Holds(f, At(buf, r))
        /\ \E q \in cur..(r - 1) : ~Holds(f, At(buf, q))}

\* C17: next_position(f) returns the valid position whose offset is the
\* smallest r such that f(buffer[r]) holds and some q with cursor offset
\* <= q < r has not f(buffer[q]); it returns none exactly when there is no
\* such r.
C17_NextPositionIsNextRunStart ==
    call.op \in {"next_keyword_position", "next_symbol_position"} =>
        LET starts == RunStartsAfter(buffer,
                          Preceding(buffer, line, column), ClassOf(call.op))
        IN  result = IF starts = {} THEN None
                     ELSE Some(TextPosition(buffer, SetMin(starts)))

\* the offsets before offset cur whose character satisfies f
HoldsBefore(buf, cur, f) ==
    {r \in 0..(cur - 1) : Holds(f, At(buf, r))}

\* the first offset of the maximal run of f-characters that contains
\* offset r
RunStart(buf, r, f) ==
    SetMin({s \in 0..r : \A k \in s..r : Holds(f, At(buf, k))})

\* C18: previous_position(f) returns none when no character before the
\* cursor offset satisfies f; otherwise it returns the valid position of the
\* first character of the maximal run of f-characters that contains the
\* last f-character before the cursor, (0, 0) when the run reaches the
\* start of the buffer.
C18_PreviousPositionIsRunStart ==
    call.op \in {"previous_keyword_position", "previous_symbol_position"} =>
        LET f == ClassOf(call.op)
            hits == HoldsBefore(buffer, Preceding(buffer, line, column), f)
        IN  result = IF hits = {} THEN None
                     ELSE Some(TextPosition(buffer,
                              RunStart(buffer, SetMax(hits), f)))

RunEnd(buf, r, f) ==
    SetMax({e \in r..(Len(buf) - 1) : \A k \in r..e : Holds(f, At(buf, k))})

\* C20: on every valid cursor next_end_position(f) returns the position of
\* the last character of the first maximal run of f-characters that contains
\* or follows the cursor offset, and none only when no f-character is at or
\* after the cursor; it never fails.
C20_NextEndPositionIsRunEnd ==
    (call.op \in {"next_keyword_end_position", "next_symbol_end_position"}
        /\ CursorValid(old)) =>
        LET f == ClassOf(call.op)
            cur == Preceding(buffer, line, column)
            hits == {r \in cur..(Len(buffer) - 1) : Holds(f, At(buffer, r))}
        IN  result = IF hits = {} THEN None
                     ELSE Some(TextPosition(buffer,
                              RunEnd(buffer, SetMin(hits), f)))

\* C21: whenever previous_end_position(f) returns a position p for a run
\* found before the cursor, p is a valid position and offset(p) is the
\* offset of the last f-character preceding the last character without f
\* before the cursor, on whichever line that character lies.
C21_PreviousEndPositionIsRunEnd ==
    (call.op \in {"previous_keyword_end_position",
                  "previous_symbol_end_position"}
        /\ IsSome(result)) =>
        LET f == ClassOf(call.op)
            cur == Preceding(buffer, line, column)
            gaps == {m \in 0..(cur - 1) : ~Holds(f, At(buffer, m))}
            ends == IF gaps = {} THEN {}
                    ELSE HoldsBefore(buffer, SetMax(gaps), f)
            p == Unwrap(result)
        IN  ends # {} =>
                /\ ValidInText(buffer, p[1], p[2])
                /\ Preceding(buffer, p[1], p[2]) = SetMax(ends)

\* C22: after_position(f) is none exactly when next_end_position(f) is
\* none; when next_end_position(f) returns a position, after_position(f)
\* returns the valid position whose offset is one greater (column 0 of the
\* next line when that position is at the width of its line).
C22_AfterPositionIsOnePastRunEnd ==
    call.op = "after_position" =>
        LET e == next_end_position(old, call.text[1])
        IN  /\ result = None <=> e = None
            /\ result = Panic <=> e = Panic
            /\ IsSome(e) =>
                  /\ IsSome(result)
                  /\ ValidInText(buffer, Unwrap(result)[1], Unwrap(result)[2])
                  /\ Preceding(buffer, Unwrap(result)[1], Unwrap(result)[2])
                        = Preceding(buffer, Unwrap(e)[1], Unwrap(e)[2]) + 1

\* C22 witness: after_position answered column 0 of the line after the one
\* on which the run ends.
C22_Witness ==
    /\ call.op = "after_position"
    /\ IsSome(result)
    /\ IsSome(next_end_position(old, call.text[1]))
    /\ Unwrap(result)[1] = Unwrap(next_end_position(old, call.text[1]))[1] + 1
    /\ Unwrap(result)[2] = 0

\* C23: before_position(f) returns the position one codepoint before
\* p = previous_position(f): (p.line, p.column - 1) when p.column > 0, the
\* last column of line p.line - 1 when p.column = 0 and p.line > 0, and none
\* when p is (0, 0) or previous_position(f) is none.
C23_BeforePositionIsOneBeforeRunStart ==
    (call.op = "before_position"
        /\ previous_position(old, call.text[1]) # Panic) =>
        LET s == previous_position(old, call.text[1])
            p == Unwrap(s)
        IN  result =
                IF s = None THEN None
                ELSE IF p[2] > 0 THEN Some(PositionNew(p[1], p[2] - 1))
                ELSE IF p[1] > 0
                     THEN Some(PositionNew(p[1] - 1,
                                   WidthOf(buffer, p[1] - 1)))
                ELSE None

\* the number of characters ch at the offsets a .. b - 1 of a text
CountOf(buf, a, b, ch) == Cardinality({k \in a..(b - 1) : At(buf, k) = ch})

\* C24: with open # close and the cursor on an open character at offset n,
\* match_pair returns the smallest offset m > n such that buffer[m] = close
\* and buffer[n+1..m] holds equally many open and close characters, or none
\* if there is no such m; on a close character it returns the symmetric
\* largest offset m < n holding open; on any other character none.
C24_MatchPairIsBalancedPartner ==
    (call.op = "match_pair"
        /\ Preceding(buffer, line, column) < Len(buffer)) =>
        LET open == call.text[1]
            close == call.text[2]
            n == Preceding(buffer, line, column)
            x == At(buffer, n)
            fwd == {m \in (n + 1)..(Len(buffer) - 1) :
                       /\ At(buffer, m) = close
                       /\ CountOf(buffer, n + 1, m, open)
                             = CountOf(buffer, n + 1, m, close)}
            bwd == {m \in 0..(n - 1) :
                       /\ At(buffer, m) = open
                       /\ CountOf(buffer, m + 1, n, open)
                             = CountOf(buffer, m + 1, n, close)}
        IN  result = IF x = open
                     THEN IF fwd = {} THEN None ELSE Some(SetMin(fwd))
                     ELSE IF x = close
                     THEN IF bwd = {} THEN None ELSE Some(SetMax(bwd))
                     ELSE None

\* the characters of line l of a text, its newline excluded
LineText(buf, l) ==
    SubSeq(buf, Preceding(buf, l, 0) + 1, Preceding(buf, l, 0) + WidthOf(buf, l))

\* C25: delete_line(line), for every line < line_count(), removes that line
\* entirely: the buffer then consists of the other lines in their original
\* order, line_count() has decreased by one (or the buffer is empty with a
\* single line when it was the only line), and the cursor is a valid
\* position.
C25_DeleteLineRemovesLine ==
    (call.op = "delete_line" /\ call.line < line_count(old)) =>
        LET l == call.line
            n == line_count(old)
        IN  /\ ~panicked
            /\ CursorValid(this)
            /\ IF n = 1
               THEN buffer = << >> /\ line_count(this) = 1
               ELSE /\ line_count(this) = n - 1
                    /\ LinesOf(buffer) = LinesOf(old.buffer) - 1
                    /\ \A k \in 0..(LinesOf(buffer) - 1) :
                          LineText(buffer, k) =
                              LineText(old.buffer, IF k < l THEN k ELSE k + 1)

\* the number of lines of a text that come before its line k when the
\* lines are put in ascending order, equal lines in their original order
SortedPlace(buf, k) ==
    Cardinality({j \in 0..(LinesOf(buf) - 1) :
        \/ SliceLess(LineText(buf, j), LineText(buf, k))
        \/ (LineText(buf, j) = LineText(buf, k) /\ j < k)})

\* C26: sort_line() rewrites the buffer so that the former lines appear in
\* ascending order of their character sequences, each followed by a
\* newline, and the cursor ends on the line that holds the text of the line
\* it was on (equal lines keeping their relative order) at the same column.
C26_SortLineSortsLines ==
    call.op = "sort_line" =>
        LET n == LinesOf(old.buffer)
        IN  /\ ~panicked
            /\ Len(buffer) = Len(old.buffer) - (n - 1) + n
            /\ buffer # << >> /\ buffer[Len(buffer)] = NL
            /\ \A k \in 0..(n - 1) :
                  LineText(buffer, SortedPlace(old.buffer, k))
                      = LineText(old.buffer, k)
            /\ \A k \in 0..(n - 2) :
                  ~SliceLess(LineText(buffer, k + 1), LineText(buffer, k))
            /\ line = SortedPlace(old.buffer, old.line)
            /\ column = old.column

\* C27: join(line), for every line < line_count(), returns normally and
\* keeps the Core invariants (line_count() >= 1, cursor valid); when line is
\* not the last line the result is the old buffer with the newline ending
\* that line replaced by a single space, so the buffer length is unchanged
\* and line_count() decreases by one.
C27_JoinReplacesNewlineBySpace ==
    (call.op = "join" /\ call.line < line_count(old)) =>
        /\ ~panicked
        /\ line_count(this) >= 1
        /\ CursorValid(this)
        /\ call.line < line_count(old) - 1 =>
              LET o == Preceding(old.buffer, call.line,
                                 WidthOf(old.buffer, call.line))
              IN  /\ buffer = [old.buffer EXCEPT ![o + 1] = " "]
                  /\ line_count(this) = line_count(old) - 1

\* a byte that starts a UTF-8 sequence
IsLead(b) == b < 128 \/ b >= 192

\* the line a byte of a &str lies on
ByteLine(s, i) == Cardinality({j \in 0..(i - 1) : At(s, j) = 10})

\* the Unicode scalar values of line l of a &str, its newline excluded
ScalarsOnLine(s, l) ==
    Cardinality({i \in 0..(Len(s) - 1) :
        IsLead(At(s, i)) /\ At(s, i) # 10 /\ ByteLine(s, i) = l})

\* the bytes of line l of a &str, its newline excluded
BytesOnLine(s, l) ==
    Cardinality({i \in 0..(Len(s) - 1) : At(s, i) # 10 /\ ByteLine(s, i) = l})

\* the Unicode scalar values of a &str before column c of line l
ScalarsBefore(s, l, c) ==
    Cardinality({i \in 0..(Len(s) - 1) :
        IsLead(At(s, i)) /\ ByteLine(s, i) < l}) + c

\* widths and offsets of a Core, measured on the &str s of its text
CountsScalars(self, s) ==
    \A l \in 0..(line_count(self) - 1) :
        /\ line_width(self, l) = Some(ScalarsOnLine(s, l))
        /\ \A c \in 0..ScalarsOnLine(s, l) :
              offset(self, l, c) = Some(ScalarsBefore(s, l, c))

\* C28: columns, widths and offsets of Core count Unicode scalar values, not
\* bytes: a character encoded in several bytes occupies exactly one column,
\* so insert_at of a four-byte character at (0, 2) of a text made of that
\* character and "a" appends it, and the width of a line is the number of
\* its characters whatever their encoded length.
C28_ColumnsCountScalars ==
    /\ (call.op = "new" /\ new_result = "Ok") =>
          /\ StrOf(buffer) = call.text
          /\ CountsScalars(this, call.text)
    /\ (call.op = "insert_at" /\ ~panicked
            /\ IsSome(offset(old, call.line, call.column))) =>
          LET i == Unwrap(offset(old, call.line, call.column))
              b == Len(StrOf(SubSeq(old.buffer, 1, i)))
          IN  /\ StrOf(buffer)
                    = Spliced(StrOf(old.buffer), encode_utf8(call.text[1]), b)
              /\ CountsScalars(this, StrOf(buffer))
              /\ (call.line = old.line /\ call.column <= old.column
                    /\ call.text[1] # NL)
                    => column = old.column + 1

C28_Witness ==
    /\ call.op = "insert_at"
    /\ call.text = <<Wide>>
    /\ call.line = 0 /\ call.column = 2
    /\ old.buffer = <<Wide, "a">>
    /\ buffer = <<Wide, "a", Wide>>
    /\ line_width(this, 0) = Some(3)
    /\ BytesOnLine(StrOf(buffer), 0) = 9

\* C29: cursor repair of insert_at at a valid target (line, column) with
\* offset i and pre-mutation cursor offset c: if ch is a newline and i <= c,
\* the cursor line increases by one and, when line was the cursor's line, the
\* column becomes c - i; otherwise, if line is the cursor's line and
\* column <= cursor column, the cursor column increases by one; otherwise the
\* cursor is unchanged.
C29_InsertAtRepairsCursor ==
    (call.op = "insert_at"
        /\ ValidInText(old.buffer, call.line, call.column)) =>
        LET i == Preceding(old.buffer, call.line, call.column)
            c == Preceding(old.buffer, old.line, old.column)
        IN  /\ ~panicked
            /\ IF call.text[1] = NL /\ i <= c
               THEN /\ line = old.line + 1
                    /\ column = (IF call.line = old.line THEN c - i
                                 ELSE old.column)
               ELSE IF call.line = old.line /\ call.column <= old.column
               THEN line = old.line /\ column = old.column + 1
               ELSE line = old.line /\ column = old.column

\* delete_at(call.line, call.column) returned and removed the character at
\* that position of the text
DeleteAtRemoved ==
    /\ call.op = "delete_at"
    /\ ~panicked
    /\ ValidInText(old.buffer, call.line, call.column)
    /\ Preceding(old.buffer, call.line, call.column) < Len(old.buffer)
    /\ buffer = Cut(old.buffer,
                    Preceding(old.buffer, call.line, call.column),
                    Preceding(old.buffer, call.line, call.column) + 1)

\* the cursor after the removal of the character at offset o, for a cursor
\* that was at offset c; `behind` says whether the cursor counts as being
\* behind the removed character
RepairedCursor(o, c, behind) ==
    LET width == WidthOf(old.buffer, call.line)
    IN  IF At(old.buffer, o) = NL /\ behind
        THEN /\ line = old.line - 1
             /\ column = (IF call.line = old.line - 1
                          THEN width + c - o - 1
                          ELSE old.column)
        ELSE IF call.line # old.line
        THEN line = old.line /\ column = old.column
        ELSE IF call.column < old.column
        THEN line = old.line /\ column = old.column - 1
        ELSE line = old.line /\ column = old.column

\* C30: cursor repair of delete_at removing the character at offset o, with
\* pre-mutation cursor offset c: if the removed character is a newline and
\* o <= c (equality included), the cursor line decreases by one and, when
\* the deletion line equals the decremented cursor line, the column becomes
\* width + c - o - 1; otherwise, if the deletion line differs from the cursor
\* line the cursor is unchanged; otherwise, if the deleted column is before
\* the cursor column, the cursor column decreases by one.
C30_DeleteAtRepairsCursor ==
    DeleteAtRemoved =>
        LET o == Preceding(old.buffer, call.line, call.column)
            c == Preceding(old.buffer, old.line, old.column)
        IN  RepairedCursor(o, c, o <= c)

\* C30 (amended): the cursor moves up a line only when the removed newline
\* is strictly before the cursor offset (o < c); a cursor that is on the
\* removed newline (o = c) stays where it is.
C30_CursorOnRemovedNewlineStays ==
    DeleteAtRemoved =>
        LET o == Preceding(old.buffer, call.line, call.column)
            c == Preceding(old.buffer, old.line, old.column)
        IN  RepairedCursor(o, c, o < c)

C30_Witness ==
    /\ DeleteAtRemoved
    /\ old.newline_indices = FullIndex(old.buffer)
    /\ CursorValid(old)
    /\ CursorValid(this)
    /\ At(old.buffer, Preceding(old.buffer, call.line, call.column)) = NL
    /\ Preceding(old.buffer, call.line, call.column)
          = Preceding(old.buffer, old.line, old.column)
    /\ old.line > 0
    /\ line = old.line /\ column = old.column

\* insert_at(ch, call.line, call.column) returned and put ch in at that
\* position of the text
InsertAtInserted ==
    /\ call.op = "insert_at"
    /\ ~panicked
    /\ ValidInText(old.buffer, call.line, call.column)
    /\ buffer = Spliced(old.buffer, call.text,
                        Preceding(old.buffer, call.line, call.column))

\* C31: the cursor stays on the same character across single-character
\* mutations: after a successful insert_at at offset i the cursor's absolute
\* offset is c + 1 if i <= c and c otherwise, and after a successful
\* delete_at at offset o it is c - 1 if o < c and c otherwise, where c is the
\* cursor's absolute offset before the call.
C31_CursorStaysOnCharacter ==
    LET c == Preceding(old.buffer, old.line, old.column)
        at == Preceding(old.buffer, call.line, call.column)
        now == Preceding(buffer, line, column)
    IN  /\ InsertAtInserted => now = (IF at <= c THEN c + 1 ELSE c)
        /\ DeleteAtRemoved => now = (IF at < c THEN c - 1 ELSE c)

C31_Witness ==
    /\ DeleteAtRemoved
    /\ CursorValid(old)
    /\ old.newline_indices = FullIndex(old.buffer)
    /\ At(old.buffer, Preceding(old.buffer, call.line, call.column)) = NL
    /\ Preceding(old.buffer, call.line, call.column)
          < Preceding(old.buffer, old.line, old.column)
    /\ line = old.line - 1
    /\ column > 0

\* C32: match_pair (and match_paren) returns a value for every valid cursor
\* position: when the cursor is at the end-of-buffer slot (cursor offset
\* equal to the buffer length, no character under it) it returns none rather
\* than failing.
C32_MatchPairAtEndIsNone ==
    (call.op = "match_pair" /\ ValidInText(buffer, line, column)) =>
        /\ result # Panic
        /\ Preceding(buffer, line, column) = Len(buffer) => result = None

\* the Core with its cursor put at (l, c)
CursorAt(self, l, c) == [self EXCEPT !.line = l, !.column = c]

\* C33: match_pair is an involution on matched delimiters when
\* open != close: if with the cursor at offset a match_pair returns Some(b),
\* then with the cursor placed at offset b (same buffer) match_pair returns
\* Some(a).
C33_MatchPairIsInvolution ==
    (call.op = "match_pair" /\ IsSome(result)) =>
        LET p == Paren(call.text[1], call.text[2])
            a == current_offset(this)
        IN  \A l \in 0..(MaxPos + 1), c \in 0..(MaxPos + 1) :
               current_offset(CursorAt(this, l, c)) = result
                  => match_pair(CursorAt(this, l, c), p) = a

C33_Witness ==
    /\ call.op = "match_pair"
    /\ buffer = <<"(", "(", ")", ")">>
    /\ line = 0 /\ column = 0
    /\ result = Some(3)
    /\ current_offset(CursorAt(this, 0, 3)) = Some(3)
    /\ match_pair(CursorAt(this, 0, 3), Paren("(", ")")) = Some(0)

\* n calls of move_to_beginning_of_next_keyword, one after the other
RECURSIVE NextKeywordTimes(_, _)
NextKeywordTimes(self, n) ==
    IF n = 0 \/ self.panicked THEN self
    ELSE NextKeywordTimes(move_to_beginning_of_next_keyword(self), n - 1)

RECURSIVE PreviousKeywordTimes(_, _)
PreviousKeywordTimes(self, n) ==
    IF n = 0 \/ self.panicked THEN self
    ELSE PreviousKeywordTimes(move_to_beginning_of_previous_keyword(self), n - 1)

\* C34: each move_to_beginning_of_next_keyword call either leaves the cursor
\* unchanged (next_keyword_position() is none) or moves it exactly to the
\* position next_keyword_position() returned, strictly increasing the
\* cursor's absolute offset; each move_to_beginning_of_previous_keyword call
\* likewise leaves it unchanged or strictly decreases the offset; hence
\* repeating either motion reaches a fixed point after at most buffer-length
\* calls.
C34_KeywordMotionsAreMonotonic ==
    LET was == Preceding(old.buffer, old.line, old.column)
        now == Preceding(buffer, line, column)
    IN  /\ call.op = "move_to_beginning_of_next_keyword" =>
              LET r == next_keyword_position(old)
                  done == NextKeywordTimes(old, Len(old.buffer))
              IN  /\ ~panicked
                  /\ IF r = None
                     THEN line = old.line /\ column = old.column
                     ELSE IsSome(r) /\ <<line, column>> = Unwrap(r) /\ now > was
                  /\ move_to_beginning_of_next_keyword(done) = done
        /\ call.op = "move_to_beginning_of_previous_keyword" =>
              LET r == previous_keyword_position(old)
                  done == PreviousKeywordTimes(old, Len(old.buffer))
              IN  /\ ~panicked
                  /\ IF r = None
                     THEN line = old.line /\ column = old.column
                     ELSE IsSome(r) /\ <<line, column>> = Unwrap(r) /\ now < was
                  /\ move_to_beginning_of_previous_keyword(done) = done

\* C35: sort_line() preserves line_count() and is idempotent: applying it
\* twice leaves the same buffer, line index and cursor as applying it once,
\* and the state it leaves equals Core::new on the resulting text and cursor.
C35_SortLineIsIdempotent ==
    call.op = "sort_line" =>
        /\ ~panicked
        /\ line_count(this) = line_count(old)
        /\ sort_line(this) = this
        /\ CoreNew(buffer, line, column).tag = "Ok"
        /\ CoreNew(buffer, line, column).core = this

\* C36: for every n representable as usize, including values for which
\* column + n or line + n exceeds usize::MAX, move_right(n) ends at column
\* min(column + n, line_width(line)) and move_down(n) ends at line
\* min(line + n, line_count() - 1), the sums being taken without wrap-around
\* and without overflow failure.
C36_MovesDoNotOverflow ==
    /\ (call.op = "move_right" /\ IsSome(line_width(old, old.line))) =>
          /\ ~panicked
          /\ column = Min(old.column + call.n,
                          Unwrap(line_width(old, old.line)))
    /\ (call.op = "move_down" /\ line_count(old) >= 1) =>
          /\ ~panicked
          /\ line = Min(old.line + call.n, line_count(old) - 1)

\* the width of the line a Core2 cursor is on
Width2(self) == Len(At(self.buffer, self.line))

\* C37: in Core2, when a move_up/move_down truncates the column to a
\* shorter line's width, the untruncated column is remembered as the virtual
\* column, and every later move_up/move_down sets the column to
\* min(virtual column, width of the new line) as long as no horizontal move
\* has changed the column in between; the cursor always satisfies
\* column <= width of its line.
C37_VirtualColumnIsRestored ==
    (call.op # "new" \/ new_result = "Ok") =>
        /\ ~panicked => (line < Len(buffer) /\ column <= Width2(this2))
        /\ (call.op \in {"move_up", "move_down"} /\ ~panicked) =>
              LET start == StartColumn(old.remembered, old.core.column)
              IN  /\ IsSome(old.remembered)
                        => column = Min(start, Width2(this2))
                  /\ (old.remembered # Discarded /\ start > Width2(this2))
                        => /\ virtual_column = Some(start)
                           /\ column = Width2(this2)

\* C38: in Core2, any horizontal move that changes the column, move_left and
\* move_right alike, discards the remembered virtual column: the next
\* move_up/move_down after it starts from the column the horizontal move
\* produced (clamped to the new line's width), never from an older virtual
\* column.
C38_HorizontalMoveDiscardsVirtualColumn ==
    /\ (call.op \in {"move_left", "move_right"} /\ ~panicked
            /\ column # old.core.column)
          => virtual_column = None
    /\ (call.op \in {"move_up", "move_down"} /\ ~panicked
            /\ old.remembered = Discarded)
          => column = Min(old.core.column, Width2(this2))

\* C39: Core2::insert_at and Core2::delete_at never panic: they return
\* Err(PositionError::Line(line)) when line >= line_count(), and
\* Err(PositionError::Column(column)) when column addresses no insertion
\* slot (insert_at: column > line width) or no existing character
\* (delete_at: column >= line width), carrying the offending value and
\* leaving buffer and cursor unchanged; when they return Ok the cursor still
\* satisfies column <= width of its line.
C39_Core2EditsReturnErrors ==
    call.op \in {"insert_at", "delete_at"} =>
        LET lc == Core2_line_count(old.core)
            w == Len(At(old.core.buffer, call.line))
            unchanged == /\ buffer = old.core.buffer
                         /\ line = old.core.line
                         /\ column = old.core.column
        IN  /\ ~panicked
            /\ result # Panicked
            /\ call.line >= lc => (result = ErrLine(call.line) /\ unchanged)
            /\ (call.line < lc /\ call.op = "insert_at" /\ call.column > w)
                  => (result = ErrColumn(call.column) /\ unchanged)
            /\ (call.line < lc /\ call.op = "delete_at" /\ call.column >= w)
                  => (result = ErrColumn(call.column) /\ unchanged)
            /\ IsOk(result) => column <= Width2(this2)

====
